---- MODULE Spec2Model ----
(***************************************************************************)
(* Model of src/utils/model_utils.py: chat_n_times (the dispatcher), the   *)
(* multiprocessing.Pool it drives (the worker pool) and _chat_worker (the  *)
(* retry executor), and of src/utils/tool_utils.py: EmailSearchTool with   *)
(* its date parsers and its search (specification ToolSpec).               *)
(*                                                                         *)
(* Times (backoff_base, jitter, sleep_s) are counted in integer ticks.     *)
(* Optional[int] is a sequence: <<>> is None and <<k>> is the integer k.   *)
(* A blocking call is split at its blocking points: a worker is "calling"  *)
(* while inside co.chat and "sleeping" while inside time.sleep.            *)
(***************************************************************************)
EXTENDS Integers, Sequences, FiniteSets, TLC

\* ---------------------------------------------------------------- bounds
MaxN == 3
MaxChunkN == 5
MaxChunkRetries == 2
MaxWorkers == 2
\* what mp.cpu_count() returns on the host
CpuCount == 1
MaxRetries == 3
MaxBackoff == 1
MaxJitter == 1
\* stand-in for maxtasksperchild=100 (model_utils.py line 119), scaled down
\* so that workers are replaced within a batch of MaxN tasks
TasksPerChild == 2

\* pool size of the batches that are long enough for a pool of several
\* workers to get chunks of two tasks
WideWorkers == 2

\* the defaults of chat_n_times; a tick is a quarter of a second
DefaultRetries == 3
DefaultBackoff == 2
DefaultJitter == 1


VARIABLES
    pc,            \* position of chat_n_times: "init", "map", "done"
    n,             \* argument n
    max_workers,   \* argument max_workers (Optional[int])
    max_retries,   \* argument max_retries
    backoff_base,  \* argument backoff_base
    jitter,        \* argument jitter
    co,            \* the module global co of the parent process
    tasks,         \* the list of task dicts
    taskq,         \* the pool's queue of chunks not yet taken by a worker
    pool,          \* the pool's list of worker processes
    value,         \* MapResult._value: one slot per submitted task
    success,       \* MapResult._success
    results,       \* what chat_n_times returned
    fault,         \* TRUE iff chat_n_times raised instead of returning
    hist,          \* per task: remote calls issued, sleeps, executor starts
    tool           \* EmailSearchTool: its emails, one call and what it gave

vars == <<pc, n, max_workers, max_retries, backoff_base, jitter,
          co, tasks, taskq, pool, value, success, results, fault,
          hist, tool>>

\* what no step of chat_n_times and its workers writes: the arguments, the
\* global co and the state of the other module, utils/tool_utils.py
args == <<n, max_workers, max_retries, backoff_base, jitter, co, tool>>

\* ------------------------------------------------------- pure helpers
\* Optional[int] values
None == <<>>
Some(k) == <<k>>

\* random.uniform(a, b): a <= N <= b, the end point b may be returned
Uniform(a, b) == a..b

\* variant: the exponent is attempt instead of attempt - 1
SleepForDouble(base, attempt, u) == (base * (2 ^ attempt)) + u

\* sleep_s = (backoff_base * (2 ** (attempt - 1))) + random.uniform(0, jitter)
SleepFor(base, attempt, u) == (base * (2 ^ (attempt - 1))) + u

\* variant: the clock is read although no call was made
NotInitResultTimed(i) ==
    [index |-> i, ok |-> FALSE, response |-> "None",
     error |-> "Cohere client not initialized in worker",
     attempts |-> 0, elapsed_s |-> "clock"]

\* the four return statements of _chat_worker
NotInitResult(i) ==
    [index |-> i, ok |-> FALSE, response |-> "None",
     error |-> "Cohere client not initialized in worker",
     attempts |-> 0, elapsed_s |-> "zero"]

\* variant: the counter is read before it was incremented
OkResultStaleAttempt(i, attempt) ==
    [index |-> i, ok |-> TRUE, response |-> "resp", error |-> "None",
     attempts |-> attempt - 1, elapsed_s |-> "clock"]

OkResult(i, attempt) ==
    [index |-> i, ok |-> TRUE, response |-> "resp", error |-> "None",
     attempts |-> attempt, elapsed_s |-> "clock"]

\* variant: the diagnostic is never stored in the Result
FailResultNoError(i, attempt) ==
    [index |-> i, ok |-> FALSE, response |-> "None", error |-> "None",
     attempts |-> attempt, elapsed_s |-> "clock"]

FailResult(i, attempt) ==
    [index |-> i, ok |-> FALSE, response |-> "None", error |-> "last_err",
     attempts |-> attempt, elapsed_s |-> "clock"]

LoopExitResult(i, attempt) ==
    [index |-> i, ok |-> FALSE, response |-> "None",
     error |-> "Unexpected retry loop exit.",
     attempts |-> attempt, elapsed_s |-> "clock"]

\* variant: the loop bound is one short
LoopCondShort(attempt, mr) == attempt < mr - 1

\* variant: the loop bound is inclusive
LoopCondInclusive(attempt, mr) == attempt <= mr

\* while attempt < max_retries
LoopCond(attempt, mr) == attempt < mr

\* variant: the last failure is re-raised instead of returned
OnExceptionReraise(attempt, mr) == IF attempt >= mr THEN "raise" ELSE "sleep"

\* variant: gives up one attempt early
OnExceptionEarly(attempt, mr) == IF attempt + 1 >= mr THEN "return" ELSE "sleep"

\* variant: the test for the last attempt is missing
OnExceptionAlwaysSleep(attempt, mr) == "sleep"

\* the except Exception block: return on the last attempt, else back off.
\* "raise" stands for an exception leaving _chat_worker.
OnException(attempt, mr) == IF attempt >= mr THEN "return" ELSE "sleep"

\* variant: n = 0 is not caught
EarlyReturnNegative(cnt) == cnt < 0

\* if n <= 0: return []
EarlyReturn(cnt) == cnt <= 0

\* variant: the indices are counted from 1
BuildTasksFromOne(cnt, mr, bb, jt) ==
    [k \in 1..cnt |->
        [index |-> k, model |-> "model", messages |-> "messages",
         kwargs |-> "kwargs", max_retries |-> mr, backoff_base |-> bb,
         jitter |-> jt]]

\* tasks = [{... "index": i ...} for i in range(n)]
BuildTasks(cnt, mr, bb, jt) ==
    [k \in 1..cnt |->
        [index |-> k - 1, model |-> "model", messages |-> "messages",
         kwargs |-> "kwargs", max_retries |-> mr, backoff_base |-> bb,
         jitter |-> jt]]

\* variant: only None falls back to the cpu count
PoolSizeNoneOnly(mw, cpu) == IF mw = None THEN cpu ELSE mw[1]

\* if max_workers is None or max_workers < 1: max_workers = mp.cpu_count()
PoolSize(mw, cpu) == IF mw = None \/ mw[1] < 1 THEN cpu ELSE mw[1]

\* Pool.map: chunksize, extra = divmod(len(iterable), len(pool) * 4);
\*           if extra: chunksize += 1
ChunkSize(len, procs) ==
    LET q == len \div (procs * 4)
        r == len % (procs * 4)
    IN  IF r # 0 THEN q + 1 ELSE q

\* Pool._get_tasks: consecutive slices of size cs; chunk number no covers
\* the slots no*cs+1 .. no*cs+Len(items). An empty list has chunksize 0
\* and gives no chunk.
GetChunks(ts, cs) ==
    LET cnt == IF cs = 0 THEN 0 ELSE (Len(ts) + cs - 1) \div cs
    IN  [c \in 1..cnt |->
            [no |-> c - 1,
             items |-> SubSeq(ts, (c - 1) * cs + 1,
                              IF c * cs < Len(ts) THEN c * cs ELSE Len(ts))]]

\* variant: the pool is created without initializer
NewWorkerNoInit(gco) ==
    [co |-> "None", completed |-> 0, served |-> 0, st |-> "idle", no |-> 0,
     items |-> <<>>, out |-> <<>>, attempt |-> 0, sleep_s |-> 0]

\* a worker process after initializer=_init_worker(co) has run in it;
\* completed counts the pool tasks (chunks of pool.map) it has finished,
\* served the calls of _chat_worker it has made
NewWorker(gco) ==
    [co |-> gco, completed |-> 0, served |-> 0, st |-> "idle", no |-> 0,
     items |-> <<>>, out |-> <<>>, attempt |-> 0, sleep_s |-> 0]

\* variant: one process too many is started
RepopulateOneMore(p, procs, gco) ==
    p \o [k \in 1..(procs - Len(p) + 1) |-> NewWorker(gco)]

\* Pool._repopulate_pool: start processes - len(pool) new workers
Repopulate(p, procs, gco) ==
    p \o [k \in 1..(procs - Len(p)) |-> NewWorker(gco)]

\* results.sort(key=lambda r: r["index"]): stable, ascending. Rank(s, i) is
\* the place of s[i] in the sorted list: after every entry with a smaller
\* key and after the earlier entries with the same key.
Rank(s, i) ==
    Cardinality({j \in 1..Len(s) : s[j].index < s[i].index})
    + Cardinality({j \in 1..i : s[j].index = s[i].index})

\* variant: the results are left in descending order
SortDescending(s) ==
    [k \in 1..Len(s) |->
        s[CHOOSE i \in 1..Len(s) : Rank(s, i) = Len(s) + 1 - k]]

SortByIndex(s) ==
    [k \in 1..Len(s) |-> s[CHOOSE i \in 1..Len(s) : Rank(s, i) = k]]

\* MapResult is ready when every chunk has been set (_number_left == 0)
AllIn(v) == \A k \in 1..Len(v) : v[k] # <<>>

\* MapResult._value once every chunk is in: the list pool.map returns
MapValue(v) == [k \in 1..Len(v) |-> v[k][1]]

Procs == PoolSize(max_workers, CpuCount)
CurChunkSize == ChunkSize(Len(tasks), Procs)

\* slot of the task a worker is executing
Pos(w) == pool[w].no * CurChunkSize + Len(pool[w].out) + 1

\* history of a task: the outcomes of the remote calls issued for it, the
\* number of backoff sleeps, the number of times _chat_worker was entered
\* with it, and the co that the executing worker saw ("" before it starts)
NoHist == [calls |-> <<>>, sleeps |-> 0, starts |-> 0, co |-> ""]

\* ------------------------------------------- utils/tool_utils.py
\* retriever.k = min(len(docs), 10)
TopK == 10

\* the largest number of days a timedelta holds: timedelta(days=...) raises
\* OverflowError beyond it
MaxTimedeltaDays == 999999999

\* emails with the same received_date in the largest email file
ManyCopies == 11

\* an amount of ten digits in a relative string
BigAmount == 1000000000

\* a date argument or a received_date field: None, the empty string, a text
\* that is not of the form Y/M/D, or the text "y/m/d" of three numbers
NoneStr == [kind |-> "none", y |-> 0, m |-> 0, d |-> 0]
EmptyStr == [kind |-> "empty", y |-> 0, m |-> 0, d |-> 0]
TextStr == [kind |-> "text", y |-> 0, m |-> 0, d |-> 0]
Ymd(y, m, d) == [kind |-> "ymd", y |-> y, m |-> m, d |-> d]

DaysIn(y, m) ==
    IF m \in {4, 6, 9, 11} THEN 30
    ELSE IF m # 2 THEN 31
    ELSE IF y % 4 = 0 /\ (y % 100 # 0 \/ y % 400 = 0) THEN 29 ELSE 28

\* a datetime at midnight as a number that grows with the date
Ordinal(y, m, d) == (y * 12 + (m - 1)) * 31 + d

\* _parse_date: None for a falsy argument; strptime(date_str, "%Y/%m/%d"),
\* whose ValueError (no such format, no such day) is caught and gives None
ParseDate(s) ==
    IF s.kind \in {"none", "empty"} THEN None
    ELSE IF /\ s.kind = "ymd"
            /\ s.y \in 1..9999 /\ s.m \in 1..12
            /\ s.d \in 1..DaysIn(s.y, s.m)
    THEN Some(Ordinal(s.y, s.m, s.d))
    ELSE None

\* a relative string: None, "", or the text amount ++ unit, where amount is
\* the text before the last character ("int" if int() accepts it, with its
\* value n) and unit the last character
NoneRel == [kind |-> "none", amount |-> "none", n |-> 0, unit |-> ""]
EmptyRel == [kind |-> "empty", amount |-> "none", n |-> 0, unit |-> ""]
Rel(amt, unit) ==
    [kind |-> "text", amount |-> "int", n |-> amt, unit |-> unit]
BadRel(unit) == [kind |-> "text", amount |-> "bad", n |-> 0, unit |-> unit]

\* what _parse_relative_time gives: None, a timedelta, or an exception that
\* leaves it
NoDelta == [kind |-> "None", days |-> 0]
Delta(days) == [kind |-> "timedelta", days |-> days]
Overflow == [kind |-> "OverflowError", days |-> 0]

\* str.lower() on the units of the inputs
Lower(u) == IF u = "D" THEN "d" ELSE IF u = "M" THEN "m"
            ELSE IF u = "Y" THEN "y" ELSE u

\* timedelta(days=mult * amount)
TimeDelta(mult, amount) ==
    IF \/ amount > MaxTimedeltaDays \div mult
       \/ amount < 0 - (MaxTimedeltaDays \div mult)
    THEN Overflow
    ELSE Delta(mult * amount)

\* _parse_relative_time: timedelta(0) for a falsy argument; None when int()
\* raises ValueError or the unit is unknown; OverflowError is not caught
ParseRelativeTime(s) ==
    IF s.kind \in {"none", "empty"} THEN Delta(0)
    ELSE IF s.amount # "int" THEN NoDelta
    ELSE IF Lower(s.unit) = "d" THEN TimeDelta(1, s.n)
    ELSE IF Lower(s.unit) = "m" THEN TimeDelta(30, s.n)
    ELSE IF Lower(s.unit) = "y" THEN TimeDelta(365, s.n)
    ELSE NoDelta

\* variant: the bounds are inclusive
KeepInclusive(email_date, after_dt, before_dt) ==
    /\ email_date # None
    /\ ~(after_dt # None /\ ~(email_date[1] >= after_dt[1]))
    /\ ~(before_dt # None /\ ~(email_date[1] <= before_dt[1]))

\* the loop body of _tool_wrapper: whether an email is appended
Keep(email_date, after_dt, before_dt) ==
    /\ email_date # None
    /\ ~(after_dt # None /\ ~(email_date[1] > after_dt[1]))
    /\ ~(before_dt # None /\ ~(email_date[1] < before_dt[1]))

\* the received_date values of _EMAILS; an email file is given by the
\* number of emails with each of them
DbDates == <<Ymd(2025, 9, 19), Ymd(2025, 9, 20), Ymd(2025, 9, 21), TextStr>>

\* filtered_emails / docs: how many emails with each date pass the filter
Filtered(db, after_dt, before_dt) ==
    [i \in 1..Len(DbDates) |->
        IF Keep(ParseDate(DbDates[i]), after_dt, before_dt) THEN db[i] ELSE 0]

RECURSIVE Total(_, _)
Total(bag, k) == IF k = 0 THEN 0 ELSE Total(bag, k - 1) + bag[k]

\* len(bag)
Size(bag) == Total(bag, Len(bag))

Min(a, b) == IF a < b THEN a ELSE b

\* retriever.invoke(query) with retriever.k = k: the k documents of docs
\* that BM25 ranks best, whichever they are
TopRanked(docs, k) ==
    {r \in {<<a, b, c, d>> : a \in 0..Min(docs[1], k),
                             b \in 0..Min(docs[2], k),
                             c \in 0..Min(docs[3], k),
                             d \in 0..Min(docs[4], k)} :
        Size(r) = k}

\* the tool while chat_n_times is looked at
ToolOff ==
    [pc |-> "off", db |-> <<0, 0, 0, 0>>, after |-> NoneStr,
     before |-> NoneStr, rel |-> NoneRel, docs |-> <<0, 0, 0, 0>>,
     out |-> <<0, 0, 0, 0>>, delta |-> NoDelta]

\* -------------------------------------------------------------- Init
Init ==
    /\ pc = "init"
    /\ \/ \* batches of any size on any pool, with the default retry policy;
          \* a pool of more than two workers gets a shorter batch
          /\ n \in -1..MaxN
          /\ max_workers \in {None} \cup {Some(k) : k \in 0..MaxWorkers}
          /\ max_workers # None => n + max_workers[1] <= MaxN + 2
          /\ max_retries = DefaultRetries
          /\ backoff_base = DefaultBackoff
          /\ jitter = DefaultJitter
       \/ \* one task under any retry policy
          /\ n = 1
          /\ max_workers = None
          /\ max_retries \in -1..MaxRetries
          /\ backoff_base \in 0..MaxBackoff
          /\ jitter \in 0..MaxJitter
       \/ \* batches long enough for pool.map to cut chunks of two tasks
          /\ n \in (MaxN + 1)..MaxChunkN
          /\ max_workers = Some(1)
          /\ max_retries \in 0..MaxChunkRetries
          /\ backoff_base = DefaultBackoff
          /\ jitter = DefaultJitter
    /\ co \in {"client", "None"}
    /\ tasks = <<>>
    /\ taskq = <<>>
    /\ pool = <<>>
    /\ value = <<>>
    /\ success = TRUE
    /\ results = <<>>
    /\ fault = FALSE
    /\ hist = <<>>
    /\ tool = ToolOff

\* ----------------------------------------------------------- actions
\* chat_n_times up to the point where pool.map blocks
Dispatch ==
    /\ pc = "init"
    /\ IF EarlyReturn(n)
       THEN /\ pc' = "done"
            /\ results' = <<>>
            /\ UNCHANGED <<tasks, taskq, pool, value, hist, fault>>
       ELSE IF Procs < 1
       THEN \* Pool(processes=0) raises ValueError
            /\ tasks' = BuildTasks(n, max_retries, backoff_base, jitter)
            /\ hist' = [k \in 1..Len(tasks') |-> NoHist]
            /\ fault' = TRUE
            /\ pc' = "done"
            /\ UNCHANGED <<taskq, pool, value, results>>
       ELSE /\ tasks' = BuildTasks(n, max_retries, backoff_base, jitter)
            /\ pool' = Repopulate(<<>>, Procs, co)
            /\ taskq' = GetChunks(tasks', ChunkSize(Len(tasks'), Procs))
            /\ value' = [k \in 1..Len(tasks') |-> <<>>]
            /\ hist' = [k \in 1..Len(tasks') |-> NoHist]
            /\ pc' = "map"
            /\ UNCHANGED <<results, fault>>
    /\ UNCHANGED <<args, success>>

\* a worker returns r for the task at the head of its chunk; when the chunk
\* is finished its list of results goes to MapResult._set and the worker
\* counts one completed pool task
Finish(w, r) ==
    LET wk == pool[w]
        out2 == Append(wk.out, r)
        rest == Tail(wk.items)
        done == wk.completed + 1
    IN  IF rest # <<>>
        THEN /\ pool' = [pool EXCEPT ![w] = [wk EXCEPT !.st = "start",
                            !.items = rest, !.out = out2, !.attempt = 0,
                            !.sleep_s = 0, !.served = @ + 1]]
             /\ UNCHANGED value
        ELSE /\ pool' = [pool EXCEPT ![w] = [wk EXCEPT
                            !.st = IF done >= TasksPerChild THEN "exited"
                                   ELSE "idle",
                            !.completed = done, !.no = 0, !.items = <<>>,
                            !.out = <<>>, !.attempt = 0, !.sleep_s = 0,
                            !.served = @ + 1]]
             /\ value' = [k \in 1..Len(value) |->
                            IF /\ k > wk.no * CurChunkSize
                               /\ k <= wk.no * CurChunkSize + Len(out2)
                            THEN <<out2[k - wk.no * CurChunkSize]>>
                            ELSE value[k]]

\* worker(): task = get() from the pool's input queue
GetTask(w) ==
    /\ pc = "map"
    /\ pool[w].st = "idle"
    /\ taskq # <<>>
    /\ pool' = [pool EXCEPT ![w] = [@ EXCEPT !.st = "start",
                    !.no = Head(taskq).no, !.items = Head(taskq).items,
                    !.out = <<>>]]
    /\ taskq' = Tail(taskq)
    /\ UNCHANGED <<pc, args, tasks, value, success, results, fault,
                   hist>>

\* _chat_worker(task) from entry to its first co.chat call
StartTask(w) ==
    /\ pc = "map"
    /\ pool[w].st = "start"
    /\ LET task == Head(pool[w].items)
       IN  /\ hist' = [hist EXCEPT ![Pos(w)].starts = @ + 1,
                                   ![Pos(w)].co = pool[w].co]
           /\ IF pool[w].co = "None"
              THEN Finish(w, NotInitResult(task.index))
              ELSE IF LoopCond(0, task.max_retries)
              THEN /\ pool' = [pool EXCEPT ![w].st = "calling",
                                           ![w].attempt = 1]
                   /\ UNCHANGED value
              ELSE Finish(w, LoopExitResult(task.index, 0))
    /\ UNCHANGED <<pc, args, tasks, taskq, success, results, fault>>

\* co.chat returns a response
CallReturns(w) ==
    /\ pc = "map"
    /\ pool[w].st = "calling"
    /\ hist' = [hist EXCEPT ![Pos(w)].calls = Append(@, "ok")]
    /\ Finish(w, OkResult(Head(pool[w].items).index, pool[w].attempt))
    /\ UNCHANGED <<pc, args, tasks, taskq, success, results, fault>>

\* co.chat raises an Exception
CallRaises(w) ==
    /\ pc = "map"
    /\ pool[w].st = "calling"
    /\ LET task == Head(pool[w].items)
           what == OnException(pool[w].attempt, task.max_retries)
       IN  IF what = "return"
           THEN /\ Finish(w, FailResult(task.index, pool[w].attempt))
                /\ hist' = [hist EXCEPT ![Pos(w)].calls = Append(@, "fail")]
                /\ UNCHANGED success
           ELSE IF what = "sleep"
           THEN /\ \E u \in Uniform(0, task.jitter) :
                     pool' = [pool EXCEPT ![w].st = "sleeping",
                                 ![w].sleep_s = SleepFor(task.backoff_base,
                                                    pool[w].attempt, u)]
                /\ hist' = [hist EXCEPT ![Pos(w)].calls = Append(@, "fail"),
                                        ![Pos(w)].sleeps = @ + 1]
                /\ UNCHANGED <<value, success>>
           ELSE \* the exception leaves the worker function: the pool sends
                \* (False, exc) and MapResult._set records the failure
                /\ pool' = [pool EXCEPT ![w] = [@ EXCEPT !.st = "idle",
                                !.completed = @ + 1, !.no = 0,
                                !.items = <<>>, !.out = <<>>, !.attempt = 0,
                                !.sleep_s = 0, !.served = @ + 1]]
                /\ hist' = [hist EXCEPT ![Pos(w)].calls = Append(@, "fail")]
                /\ success' = FALSE
                /\ UNCHANGED value
    /\ UNCHANGED <<pc, args, tasks, taskq, results, fault>>

\* time.sleep(sleep_s) returns; the loop goes round
Wake(w) ==
    /\ pc = "map"
    /\ pool[w].st = "sleeping"
    /\ LET task == Head(pool[w].items)
       IN  IF LoopCond(pool[w].attempt, task.max_retries)
           THEN /\ pool' = [pool EXCEPT ![w].st = "calling",
                                        ![w].attempt = @ + 1,
                                        ![w].sleep_s = 0]
                /\ UNCHANGED value
           ELSE Finish(w, LoopExitResult(task.index, pool[w].attempt))
    /\ UNCHANGED <<pc, args, tasks, taskq, success, results, fault,
                   hist>>

\* Pool._maintain_pool: drop the workers that exited after maxtasksperchild
\* tasks and start fresh ones in their place
MaintainPool ==
    /\ pc = "map"
    /\ \E w \in 1..Len(pool) : pool[w].st = "exited"
    /\ LET alive == SelectSeq(pool, LAMBDA wk : wk.st # "exited")
       IN  pool' = Repopulate(alive, Procs, co)
    /\ UNCHANGED <<pc, args, tasks, taskq, value, success, results, fault,
                   hist>>

\* pool.map returns (or raises), the with block terminates the pool, the
\* results are sorted and returned
Return ==
    /\ pc = "map"
    /\ ~success \/ AllIn(value)
    /\ IF success
       THEN /\ results' = SortByIndex(MapValue(value))
            /\ UNCHANGED fault
       ELSE /\ results' = <<>>
            /\ fault' = TRUE
    /\ pool' = <<>>
    /\ pc' = "done"
    /\ UNCHANGED <<args, tasks, taskq, value, success, hist>>

Next ==
    \/ Dispatch
    \/ \E w \in 1..Len(pool) : GetTask(w)
    \/ \E w \in 1..Len(pool) : StartTask(w)
    \/ \E w \in 1..Len(pool) : CallReturns(w)
    \/ \E w \in 1..Len(pool) : CallRaises(w)
    \/ \E w \in 1..Len(pool) : Wake(w)
    \/ MaintainPool
    \/ Return

Spec == Init /\ [][Next]_vars

\* the shortest batch that pool.map cuts into chunks of two tasks for a pool
\* of WideWorkers workers, with a client and a single attempt per task
WideN == 4 * WideWorkers + 1

InitWide ==
    /\ pc = "init"
    /\ n = WideN
    /\ max_workers = Some(WideWorkers)
    /\ max_retries = 1
    /\ backoff_base = DefaultBackoff
    /\ jitter = DefaultJitter
    /\ co = "client"
    /\ tasks = <<>>
    /\ taskq = <<>>
    /\ pool = <<>>
    /\ value = <<>>
    /\ success = TRUE
    /\ results = <<>>
    /\ fault = FALSE
    /\ hist = <<>>
    /\ tool = ToolOff

\* the calls of Spec and those of InitWide
WideSpec == (Init \/ InitWide) /\ [][Next]_vars

\* ------------------------------------------- EmailSearchTool, one call
\* the variables of chat_n_times, which the tool does not touch
chatvars == <<pc, n, max_workers, max_retries, backoff_base, jitter, co,
              tasks, taskq, pool, value, success, results, fault, hist>>

Copies == {0, 1, ManyCopies}
DbFiles == {<<a, b, c, d>> : a \in Copies, b \in Copies, c \in Copies,
                             d \in Copies}
DateArgs == {NoneStr, EmptyStr, TextStr, Ymd(2025, 13, 1)}
            \cup {Ymd(2025, 9, dd) : dd \in {19, 20, 21, 31}}
Amounts == {0 - 1, 0, 2, 3, MaxTimedeltaDays, BigAmount}
Units == {"d", "m", "y", "M", "x"}
RelArgs == {NoneRel, EmptyRel} \cup {BadRel(u) : u \in Units}
           \cup {Rel(a, u) : a \in Amounts, u \in Units}

ToolInit ==
    /\ pc = "init"
    /\ n = 0
    /\ max_workers = None
    /\ max_retries = DefaultRetries
    /\ backoff_base = DefaultBackoff
    /\ jitter = DefaultJitter
    /\ co = "client"
    /\ tasks = <<>>
    /\ taskq = <<>>
    /\ pool = <<>>
    /\ value = <<>>
    /\ success = TRUE
    /\ results = <<>>
    /\ fault = FALSE
    /\ hist = <<>>
    /\ \/ \* a search over any email file with any date arguments
          \E db \in DbFiles, after \in DateArgs, before \in DateArgs :
              tool = [ToolOff EXCEPT !.pc = "call_tool", !.db = db,
                          !.after = after, !.before = before]
       \/ \* a relative string handed to the parser
          \E rel \in RelArgs :
              tool = [ToolOff EXCEPT !.pc = "parse_relative", !.rel = rel]

\* EmailSearchTool.call_tool(query=..., after=..., before=...) with a query
\* string: _tool_wrapper from the date parsing to the returned list
CallTool ==
    /\ tool.pc = "call_tool"
    /\ LET after_dt == ParseDate(tool.after)
           before_dt == ParseDate(tool.before)
           docs == Filtered(tool.db, after_dt, before_dt)
       IN  IF Size(docs) = 0
           THEN tool' = [tool EXCEPT !.pc = "returned", !.docs = docs]
           ELSE \E r \in TopRanked(docs, Min(Size(docs), TopK)) :
                    tool' = [tool EXCEPT !.pc = "returned", !.docs = docs,
                                         !.out = r]
    /\ UNCHANGED chatvars

\* EmailSearchTool._parse_relative_time(relative_str)
ParseRelative ==
    /\ tool.pc = "parse_relative"
    /\ tool' = [tool EXCEPT !.pc = "parsed",
                            !.delta = ParseRelativeTime(tool.rel)]
    /\ UNCHANGED chatvars

ToolNext == CallTool \/ ParseRelative

ToolSpec == ToolInit /\ [][ToolNext]_vars

\* every remote call returns or raises, every sleep ends and the operating
\* system keeps scheduling the processes: some enabled step is taken
FairSpec == Spec /\ WF_vars(Next)

\* ------------------------------------------------------------ claims
\* the Results the retry executor has produced so far, each with the slot
\* of its task: those a worker still holds for an unfinished chunk and
\* those already stored in the MapResult
Produced ==
    UNION {{<<pool[w].no * CurChunkSize + j, pool[w].out[j]>> :
                j \in 1..Len(pool[w].out)} : w \in 1..Len(pool)}
    \cup {<<k, value[k][1]>> : k \in {m \in 1..Len(value) : value[m] # <<>>}}

AllFailed(h) == h # <<>> /\ \A k \in 1..Len(h) : h[k] = "fail"
SomeOk(h) == \E k \in 1..Len(h) : h[k] = "ok"

\* C1: when n > 0, chat_n_times returns exactly n Results and the i-th one
\* (counting from 0) carries index i, whatever the workers' interleaving.
Inv_C1_OrderRestored ==
    (pc = "done" /\ n > 0) =>
        /\ Len(results) = n
        /\ \A i \in 1..n : results[i].index = i - 1

\* a batch of three tasks on two workers has returned; the first task needed
\* every attempt, the last one succeeded at once
Wit_C1 ==
    /\ pc = "done" /\ n = 3 /\ Procs = 2 /\ Len(results) = 3
    /\ results[1].attempts = 3 /\ results[3].attempts = 1 /\ results[3].ok

\* C2: whatever remote calls fail, the batch call never raises, it returns
\* one Result per task, a task with a successful call is reported ok and a
\* task without one is reported ok = false with an error description.
Inv_C2_FailuresContained ==
    /\ ~fault
    /\ success
    /\ (pc = "done" /\ n > 0) =>
          /\ Len(results) = n
          /\ \A i \in 1..n :
                IF SomeOk(hist[i].calls)
                THEN results[i].ok
                ELSE ~results[i].ok /\ results[i].error # "None"

\* every task of a batch of at least two failed on every attempt, and the
\* batch returned
Wit_C2 ==
    /\ pc = "done" /\ n >= 2 /\ max_retries >= 2 /\ Len(results) = n
    /\ \A i \in 1..n : AllFailed(hist[i].calls) /\ ~results[i].ok

\* C3: a Result for a task whose remote calls all failed has ok = false and
\* attempts = max_retries.
Inv_C3_ExhaustedAttempts ==
    \A pr \in Produced :
        AllFailed(hist[pr[1]].calls) =>
            ~pr[2].ok /\ pr[2].attempts = max_retries

\* a task that failed max_retries >= 2 times has its Result
Wit_C3 ==
    \E pr \in Produced :
        /\ AllFailed(hist[pr[1]].calls)
        /\ max_retries >= 2
        /\ Len(hist[pr[1]].calls) = max_retries

\* C4: if the k-th remote call of a task is its first success, the task's
\* Result has ok = true and attempts = k, and the k-th call is the last one
\* issued for that task.
Inv_C4_SuccessAtK ==
    \A p \in 1..Len(hist) : \A k \in 1..Len(hist[p].calls) :
        hist[p].calls[k] = "ok" =>
            /\ k = Len(hist[p].calls)
            /\ k <= max_retries
            /\ \E pr \in Produced :
                  pr[1] = p /\ pr[2].ok /\ pr[2].attempts = k
            /\ \A w \in 1..Len(pool) :
                  pool[w].st \in {"calling", "sleeping"} => Pos(w) # p

\* a task succeeded on its third call after two failures and the batch
\* has returned
Wit_C4 ==
    /\ pc = "done"
    /\ \E p \in 1..Len(hist) :
          hist[p].calls = <<"fail", "fail", "ok">>

\* C5 as stated: in every Result attempts <= max_retries, and attempts = 0
\* only if the worker's co was None, for every max_retries the dispatcher
\* accepts.
Cex_C5_AnyPolicy ==
    \A pr \in Produced :
        /\ pr[2].attempts <= max_retries
        /\ pr[2].attempts = 0 => hist[pr[1]].co = "None"

\* C5 amended: for max_retries >= 1, in every Result attempts <= max_retries
\* and attempts = 0 only if the worker's co was None.
Inv_C5_AttemptsBounded ==
    max_retries >= 1 =>
        \A pr \in Produced :
            /\ pr[2].attempts <= max_retries
            /\ pr[2].attempts = 0 => hist[pr[1]].co = "None"

\* with max_retries >= 1 one worker without a client produced a Result with
\* attempts = 0
Wit_C5 ==
    /\ max_retries >= 1
    /\ \E pr \in Produced : pr[2].attempts = 0 /\ hist[pr[1]].co = "None"

\* C6: in every Result, response is present iff ok, and error is present
\* iff not ok.
Inv_C6_ValueXorError ==
    /\ \A pr \in Produced :
          /\ (pr[2].response # "None") <=> pr[2].ok
          /\ (pr[2].error # "None") <=> ~pr[2].ok
    /\ \A i \in 1..Len(results) :
          /\ (results[i].response # "None") <=> results[i].ok
          /\ (results[i].error # "None") <=> ~results[i].ok

\* a returned batch holds a success and an exhausted failure
Wit_C6 ==
    /\ pc = "done"
    /\ \E i, j \in 1..Len(results) :
          /\ results[i].ok
          /\ ~results[j].ok /\ results[j].attempts >= 1

\* C7: for n <= 0 the call returns the empty list in its first step: no
\* task is built, no pool or worker is started, no remote call is made.
Inv_C7_EmptyBatch ==
    n <= 0 =>
        /\ pc \in {"init", "done"}
        /\ tasks = <<>> /\ taskq = <<>> /\ pool = <<>>
        /\ value = <<>> /\ hist = <<>>
        /\ results = <<>> /\ ~fault

\* the call with n = 0 has returned
Wit_C7 == pc = "done" /\ n = 0 /\ co = "client"

\* C8 as stated: a worker that sleeps after failed attempt a sleeps at
\* least backoff_base * 2^(a-1) and strictly less than
\* backoff_base * 2^(a-1) + jitter.
Cex_C8_StrictUpper ==
    \A w \in 1..Len(pool) :
        pool[w].st = "sleeping" =>
            /\ pool[w].sleep_s >= backoff_base * 2^(pool[w].attempt - 1)
            /\ pool[w].sleep_s < backoff_base * 2^(pool[w].attempt - 1) + jitter

\* C8 amended: a worker that sleeps after failed attempt a, with
\* 1 <= a <= max_retries - 1, sleeps at least backoff_base * 2^(a-1) and at
\* most backoff_base * 2^(a-1) + jitter.
Inv_C8_BackoffRange ==
    \A w \in 1..Len(pool) :
        pool[w].st = "sleeping" =>
            /\ pool[w].attempt \in 1..(max_retries - 1)
            /\ pool[w].sleep_s >= backoff_base * 2^(pool[w].attempt - 1)
            /\ pool[w].sleep_s <= backoff_base * 2^(pool[w].attempt - 1) + jitter

\* a worker sleeps after its second failed attempt with a positive base
Wit_C8 ==
    \E w \in 1..Len(pool) :
        pool[w].st = "sleeping" /\ pool[w].attempt = 2 /\ backoff_base > 0

\* every submitted task has its Result in the MapResult and no worker is
\* inside a remote call or a sleep
AllDone ==
    /\ Len(value) = Len(tasks)
    /\ AllIn(value)
    /\ \A w \in 1..Len(pool) : pool[w].st \notin {"calling", "sleeping"}

\* C9: under fair scheduling the call eventually returns, and when it has
\* returned every submitted task has produced a Result (nothing changes
\* after the return, so the state it returns in is the only one with
\* pc = "done").
Live_C9_RunsToCompletion == <>(pc = "done" /\ AllDone)

\* a batch of three tasks has returned after one task exhausted its retries
Wit_C9 ==
    /\ pc = "done" /\ n = 3 /\ AllDone
    /\ \E i \in 1..n : AllFailed(hist[i].calls) /\ max_retries >= 2

InFlight ==
    Cardinality({w \in 1..Len(pool) : pool[w].st \in {"calling", "sleeping"}})

\* C10: the number of workers inside a remote call or a backoff sleep never
\* exceeds max_workers if that is >= 1, and the cpu count otherwise.
Inv_C10_InFlightBounded ==
    InFlight <= (IF max_workers # None /\ max_workers[1] >= 1
                 THEN max_workers[1] ELSE CpuCount)

\* two workers are in flight, the pool size is two and a chunk is waiting
Wit_C10 ==
    /\ InFlight = 2 /\ Procs = 2 /\ taskq # <<>>
    /\ \E w \in 1..Len(pool) : pool[w].st = "sleeping"

\* C13: a task entered by a worker whose co is None has its Result at once:
\* ok = false, attempts = 0, elapsed_s = 0.0 and the "client not
\* initialized" error; no remote call, no sleep and no retry happen for it,
\* whatever the retry policy.
Inv_C13_NoClientNoCall ==
    \A p \in 1..Len(hist) :
        hist[p].co = "None" =>
            /\ hist[p].calls = <<>>
            /\ hist[p].sleeps = 0
            /\ hist[p].starts = 1
            /\ \A w \in 1..Len(pool) :
                  pool[w].st \in {"calling", "sleeping"} => Pos(w) # p
            /\ \E pr \in Produced :
                  /\ pr[1] = p
                  /\ ~pr[2].ok
                  /\ pr[2].attempts = 0
                  /\ pr[2].elapsed_s = "zero"
                  /\ pr[2].response = "None"
                  /\ pr[2].error = "Cohere client not initialized in worker"

\* a worker without client was given a task whose policy allows three
\* attempts with a non-zero backoff, and the task has its Result
Wit_C13 ==
    /\ co = "None" /\ max_retries = 3 /\ backoff_base > 0
    /\ \E pr \in Produced : hist[pr[1]].co = "None" /\ pr[2].attempts = 0

\* the retry executor of the task in slot p, under chunks of cs tasks: its
\* state ph ("succeeded" or "exhausted" once it has returned a Result, ok
\* or not, "attempting" while a worker is inside a remote call or a backoff
\* sleep for the task, else "waiting"), its attempt counter k and whether
\* it is asleep
Executor(p, cs) ==
    IF value[p] # <<>>
    THEN [ph |-> IF value[p][1].ok THEN "succeeded" ELSE "exhausted",
          k |-> 0, sl |-> FALSE]
    ELSE LET ws == {w \in 1..Len(pool) :
                      /\ pool[w].items # <<>>
                      /\ p - pool[w].no * cs \in 1..(Len(pool[w].out) + 1)}
         IN  IF ws = {}
             THEN [ph |-> "waiting", k |-> 0, sl |-> FALSE]
             ELSE LET wk == pool[CHOOSE w \in ws : TRUE]
                      j == p - wk.no * cs
                  IN  IF j <= Len(wk.out)
                      THEN [ph |-> IF wk.out[j].ok THEN "succeeded"
                                   ELSE "exhausted",
                            k |-> 0, sl |-> FALSE]
                      ELSE IF wk.st \in {"calling", "sleeping"}
                      THEN [ph |-> "attempting", k |-> wk.attempt,
                            sl |-> wk.st = "sleeping"]
                      ELSE [ph |-> "waiting", k |-> 0, sl |-> FALSE]

Phase(p) == Executor(p, CurChunkSize).ph
Counter(p) == Executor(p, CurChunkSize).k
Sleeping(p) == Executor(p, CurChunkSize).sl

\* one step seen from slot p: from phase ph, counter k, asleep or not (sl)
\* and the calls c to ph2, k2, sl2 and c2, under the limit mr
MachineStep(ph, k, sl, c, ph2, k2, sl2, c2, mr) ==
    /\ ph \in {"succeeded", "exhausted"} => ph2 = ph /\ c2 = c
    /\ c2 # c =>
          /\ ph = "attempting" /\ ~sl
          /\ Len(c2) = Len(c) + 1 /\ SubSeq(c2, 1, Len(c)) = c
          /\ k = Len(c2)
          /\ c2[Len(c2)] = "ok" => ph2 = "succeeded"
          /\ (c2[Len(c2)] = "fail" /\ Len(c2) < mr) =>
                ph2 = "attempting" /\ sl2 /\ k2 = k
          /\ (c2[Len(c2)] = "fail" /\ Len(c2) >= mr) => ph2 = "exhausted"
    /\ (ph = "attempting" /\ c2 = c) =>
          /\ ph2 = "attempting"
          /\ \/ k2 = k /\ sl2 = sl
             \/ k2 = k + 1 /\ sl /\ ~sl2
    /\ (ph = "waiting" /\ ph2 = "attempting") =>
          k2 = 1 /\ c = <<>> /\ ~sl2

\* C15: every step of the retry executor of a task follows the machine
\* attempting / succeeded / exhausted: a remote call is issued only while
\* attempting and is the counter-th call of the task; a successful call
\* moves to succeeded, a failed one with attempts remaining stays attempting
\* (in its backoff sleep), a failed one with none remaining moves to
\* exhausted, and nothing else leaves attempting; succeeded and exhausted
\* are terminal (no further call or sleep); the counter starts at 1 and
\* grows by exactly 1 for each further remote call.
Step_C15_RetryMachine ==
    /\ [](\A p \in 1..Len(hist) : hist[p].starts = 0 => Phase(p) = "waiting")
    /\ [][\A cs \in {CurChunkSize} : \A p \in 1..Len(hist) :
        \/ \* a task that was not entered is waiting before and after
           hist[p].starts = 0 /\ hist'[p] = hist[p]
        \/ \* a stored Result stays as it is
           value[p] # <<>> /\ value'[p] = value[p] /\ hist'[p] = hist[p]
        \/ \A e \in {Executor(p, cs)}, e2 \in {Executor(p, cs)'} :
              /\ MachineStep(e.ph, e.k, e.sl, hist[p].calls,
                             e2.ph, e2.k, e2.sl, hist'[p].calls,
                             tasks[p].max_retries)
              /\ e.ph \in {"succeeded", "exhausted"} => hist'[p] = hist[p]
      ]_vars

\* one task is in its second attempt while one has succeeded and one has
\* exhausted its three attempts
Wit_C15 ==
    \E p, q, r \in 1..Len(hist) :
        /\ Phase(p) = "attempting" /\ Counter(p) = 2 /\ ~Sleeping(p)
        /\ Phase(q) = "succeeded"
        /\ Phase(r) = "exhausted" /\ Len(hist[r].calls) = 3

\* C16: a backoff sleep happens only after a failed attempt that is followed
\* by another attempt of the same task: a task inside its a-th call has
\* slept a - 1 times, a task asleep after its a-th call has slept a times
\* and has an attempt left, and a Result with attempts = a >= 1 belongs to
\* a task that slept exactly a - 1 times (none at all for attempts = 0).
Inv_C16_SleepsBetweenAttempts ==
    /\ \A w \in 1..Len(pool) :
          /\ pool[w].st = "calling" =>
                hist[Pos(w)].sleeps = pool[w].attempt - 1
          /\ pool[w].st = "sleeping" =>
                /\ hist[Pos(w)].sleeps = pool[w].attempt
                /\ hist[Pos(w)].calls[pool[w].attempt] = "fail"
                /\ pool[w].attempt < tasks[Pos(w)].max_retries
    /\ \A pr \in Produced :
          hist[pr[1]].sleeps =
              (IF pr[2].attempts >= 1 THEN pr[2].attempts - 1 ELSE 0)
    /\ \A p \in 1..Len(hist) :
          hist[p].sleeps <=
              Cardinality({k \in 1..Len(hist[p].calls) :
                              hist[p].calls[k] = "fail"})

\* a task has its Result after three attempts and two sleeps, another one
\* after a single successful attempt and no sleep
Wit_C16 ==
    \E pr, qr \in Produced :
        /\ pr[2].attempts = 3 /\ hist[pr[1]].sleeps = 2
        /\ qr[2].attempts = 1 /\ hist[qr[1]].sleeps = 0 /\ qr[2].ok

\* C17: once built, the Task Descriptors are n records with the indices
\* 0 .. n-1 in order (each exactly once) that all carry the same model,
\* messages and extra parameters and the retry policy of the call; they
\* stay so while the batch runs, and every copy of a descriptor that waits
\* in the queue or is held by a worker equals the descriptor of its slot.
Inv_C17_DescriptorsFixed ==
    (pc = "map" \/ (pc = "done" /\ n > 0 /\ ~fault)) =>
        /\ Len(tasks) = n
        /\ \A k \in 1..n :
              tasks[k] = [index |-> k - 1, model |-> "model",
                          messages |-> "messages", kwargs |-> "kwargs",
                          max_retries |-> max_retries,
                          backoff_base |-> backoff_base, jitter |-> jitter]
        /\ \A j, k \in 1..n : j # k => tasks[j].index # tasks[k].index
        /\ \A c \in 1..Len(taskq) : \A j \in 1..Len(taskq[c].items) :
              taskq[c].items[j] = tasks[taskq[c].no * CurChunkSize + j]
        /\ \A w \in 1..Len(pool) : \A j \in 1..Len(pool[w].items) :
              pool[w].items[j] = tasks[Pos(w) + j - 1]

\* a batch of three descriptors is being executed: a worker is asleep
\* between two attempts on the last one and a Result exists already
Wit_C17 ==
    /\ pc = "map" /\ n = 3 /\ Produced # {}
    /\ \E w \in 1..Len(pool) :
          pool[w].st = "sleeping" /\ Head(pool[w].items).index = 2

\* the calls a task consumes from its sequence of call outcomes: none
\* without client or without an allowed attempt, else the shortest prefix
\* that ends with a success, cut after max_retries calls
ConsumedPrefix(h, mr, c) ==
    IF c = "None" \/ mr <= 0
    THEN h = <<>>
    ELSE /\ Len(h) \in 1..mr
         /\ \A k \in 1..(Len(h) - 1) : h[k] = "fail"
         /\ h[Len(h)] = "ok" \/ Len(h) = mr

\* C12: the returned list is a function of n, the retry policy, the client
\* handle and each task's sequence of call outcomes alone: the calls made
\* for task i are the prefix of its outcome sequence fixed by the policy,
\* and entry i of the list is (i, a call succeeded, number of calls).  No
\* term of this function mentions the pool size, the worker that ran the
\* task, the order of completion or recycling, so two runs that agree on
\* its arguments return the same (index, ok, attempts) list.
Inv_C12_ResultsDetermined ==
    (pc = "done" /\ n > 0) =>
        /\ ~fault
        /\ Len(results) = n
        /\ \A i \in 1..n :
              /\ ConsumedPrefix(hist[i].calls, max_retries, co)
              /\ <<results[i].index, results[i].ok, results[i].attempts>>
                    = <<i - 1, SomeOk(hist[i].calls), Len(hist[i].calls)>>

\* three tasks ran on two workers; they needed two, three and one call and
\* the list is (0, ok, 2), (1, failed, 3), (2, ok, 1)
Wit_C12 ==
    /\ pc = "done" /\ n = 3 /\ Procs = 2
    /\ hist[1].calls = <<"fail", "ok">>
    /\ hist[2].calls = <<"fail", "fail", "fail">>
    /\ hist[3].calls = <<"ok">>
    /\ <<results[1].attempts, results[2].attempts, results[3].attempts>>
          = <<2, 3, 1>>

\* the slots of the descriptors a worker holds, those waiting in the queue
\* and those whose Result is stored
Held(w) ==
    IF pool[w].st \in {"start", "calling", "sleeping"}
    THEN (pool[w].no * CurChunkSize + 1) ..
         (pool[w].no * CurChunkSize + Len(pool[w].out) + Len(pool[w].items))
    ELSE {}

Queued ==
    UNION {(taskq[c].no * CurChunkSize + 1) ..
           (taskq[c].no * CurChunkSize + Len(taskq[c].items)) :
               c \in 1..Len(taskq)}

Stored == {k \in 1..Len(value) : value[k] # <<>>}

RECURSIVE CallsUpTo(_)
CallsUpTo(k) == IF k = 0 THEN 0 ELSE CallsUpTo(k - 1) + Len(hist[k].calls)

\* number of remote calls issued so far in the batch
TotalCalls == CallsUpTo(Len(hist))

\* every descriptor is in exactly one place, is entered at most once, and
\* exactly once when its Result exists; the calls issued for it are the
\* attempts of its Result
ExactlyOnce ==
    /\ pc = "map" =>
          \A p \in 1..Len(tasks) :
              Cardinality({w \in 1..Len(pool) : p \in Held(w)})
              + (IF p \in Queued THEN 1 ELSE 0)
              + (IF p \in Stored THEN 1 ELSE 0) = 1
    /\ \A p \in 1..Len(hist) :
          /\ hist[p].starts <= 1
          /\ hist[p].starts = 0 => hist[p].calls = <<>>
    /\ \A pr \in Produced :
          /\ hist[pr[1]].starts = 1
          /\ Len(hist[pr[1]].calls) = pr[2].attempts
    /\ (pc = "done" /\ n > 0) =>
          /\ Len(results) = n /\ Len(hist) = n
          /\ \A i \in 1..n :
                /\ hist[i].starts = 1
                /\ Len(hist[i].calls) = results[i].attempts

\* C20 as stated: every submitted task is executed exactly once by one
\* worker, the remote calls for task i number Result[i].attempts, and the
\* batch issues at most n * max_retries remote calls.
Cex_C20_CallBudget ==
    /\ ExactlyOnce
    /\ hist # <<>> => TotalCalls <= n * max_retries

\* C20, amended: as above, with the budget n * max_retries for
\* max_retries >= 0 and no call at all for a negative max_retries.
Inv_C20_CallBudget ==
    /\ ExactlyOnce
    /\ hist # <<>> =>
          TotalCalls <= n * (IF max_retries >= 0 THEN max_retries ELSE 0)

\* a batch of three tasks returned after the full budget of nine calls
Wit_C20 ==
    /\ pc = "done" /\ n = 3 /\ max_retries = 3 /\ TotalCalls = 9
    /\ \A i \in 1..n : hist[i].starts = 1 /\ results[i].attempts = 3

\* C14 as stated: no worker instance processes more than maxtasksperchild
\* Task Descriptors, a worker that has processed that many has left its
\* loop, and every worker of the pool, the replacements included, carries
\* the client handle that _init_worker gave it before its first task.
Cex_C14_TasksPerWorker ==
    \A w \in 1..Len(pool) :
        /\ pool[w].served <= TasksPerChild
        /\ (pool[w].served = TasksPerChild /\ pool[w].items = <<>>) =>
              pool[w].st = "exited"
        /\ pool[w].co = co
        /\ pool[w].st = "idle" /\ pool[w].completed = 0 =>
              pool[w].served = 0

\* a task nobody has picked up: _chat_worker was not entered with it and
\* no worker is about to enter it
NotStarted(p) ==
    /\ hist[p].starts = 0
    /\ \A x \in 1..Len(pool) : pool[x].st = "start" => Pos(x) # p

\* C11 as stated: while a worker is blocked in a remote call or a backoff
\* sleep, an idle worker can take a chunk whenever one waits, and every
\* task that has not been started waits in the pool's queue, where the
\* idle worker can pick it up.
Cex_C11_IdleTakesAnyTask ==
    pc = "map" =>
        \A b, w \in 1..Len(pool) :
            (pool[b].st \in {"calling", "sleeping"} /\ pool[w].st = "idle")
                => /\ taskq # <<>> => ENABLED GetTask(w)
                   /\ \A p \in 1..Len(tasks) :
                         NotStarted(p) => p \in Queued

\* the day of the text s is later than the day of the text t
Later(s, t) ==
    \/ s.y > t.y
    \/ s.y = t.y /\ s.m > t.m
    \/ s.y = t.y /\ s.m = t.m /\ s.d > t.d

\* the date texts of the inputs that name a day of the calendar (September
\* 2025 has 30 days, there is no month 13)
ValidDate(s) ==
    s \in {Ymd(2025, 9, dd) : dd \in 1..30}

\* C18: every document a search returns has a received_date strictly after
\* a valid "after" bound and strictly before a valid "before" bound (a
\* document dated on a bound is never returned), it is one of the emails
\* and has a valid date itself, and a search returns at most 10 documents.
Inv_C18_StrictBoundsTopTen ==
    tool.pc = "returned" =>
        /\ Size(tool.out) <= 10
        /\ \A i \in 1..Len(DbDates) :
              tool.out[i] > 0 =>
                  /\ tool.out[i] <= tool.db[i]
                  /\ ValidDate(DbDates[i])
                  /\ ValidDate(tool.after) => Later(DbDates[i], tool.after)
                  /\ ValidDate(tool.before) => Later(tool.before, DbDates[i])

\* a search with after = 2025/09/19 and before = 2025/09/21 over a file
\* with more than ten emails on each of the three days returned ten
\* documents
Wit_C18 ==
    /\ tool.pc = "returned"
    /\ tool.after = Ymd(2025, 9, 19) /\ tool.before = Ymd(2025, 9, 21)
    /\ tool.db = <<ManyCopies, ManyCopies, ManyCopies, 0>>
    /\ tool.out = <<0, 10, 0, 0>>

\* a date argument that is given but names no day in the form Y/M/D
Malformed(s) == s.kind = "text" \/ (s.kind = "ymd" /\ ~ValidDate(s))

\* C19 as stated: a malformed absolute date leaves its bound unfiltered
\* (every email with a valid date that passes the other bound is kept); a
\* relative string that is malformed or has an unknown unit parses to
\* None; a well-formed one parses to a duration of amount days for d,
\* 30 * amount days for m and 365 * amount days for y.
Cex_C19_LenientParsing ==
    /\ tool.pc = "returned" =>
          \A i \in 1..Len(DbDates) :
              /\ (/\ Malformed(tool.after) /\ ValidDate(DbDates[i])
                  /\ ValidDate(tool.before) => Later(tool.before, DbDates[i]))
                    => tool.docs[i] = tool.db[i]
              /\ (/\ Malformed(tool.before) /\ ValidDate(DbDates[i])
                  /\ ValidDate(tool.after) => Later(DbDates[i], tool.after))
                    => tool.docs[i] = tool.db[i]
    /\ tool.pc = "parsed" =>
          LET s == tool.rel
              t == tool.delta
          IN  /\ (s.kind = "text" /\ s.amount # "int") => t.kind = "None"
              /\ (s.kind = "text" /\ s.unit = "x") => t.kind = "None"
              /\ (s.kind = "text" /\ s.amount = "int" /\ s.unit = "d") =>
                    t.kind = "timedelta" /\ t.days = s.n
              /\ (s.kind = "text" /\ s.amount = "int" /\ s.unit = "m") =>
                    /\ t.kind = "timedelta"
                    /\ t.days % 30 = 0 /\ t.days \div 30 = s.n
              /\ (s.kind = "text" /\ s.amount = "int" /\ s.unit = "y") =>
                    /\ t.kind = "timedelta"
                    /\ t.days % 365 = 0 /\ t.days \div 365 = s.n

====
